---- MODULE Spec2Model ----
(***************************************************************************)
(* docker-push-ssh: the transfer workflow of docker_push_ssh/cli.py.       *)
(*                                                                         *)
(* pushImage is modelled as a state machine with one step per blocking     *)
(* command (or per loop exit), waitForSshTunnelInit as its own frame with  *)
(* one step per loop head, sleep and probe.  `log' is the sequence of      *)
(* commands handed to the process executor, `out' is standard output.      *)
(* The background tunnel is the only concurrent entity: it may exit on     *)
(* its own at any moment (TunnelExits).                                    *)
(***************************************************************************)
EXTENDS Integers, Sequences, FiniteSets, TLC

\* ---------------------------------------------------------------- bounds
MaxTags == 2        \* longest dockerImageTagList explored
MaxPrimes == 2      \* longest --prime-image list explored
MaxRetries == 3     \* largest retries argument explored by SpecWait
MaxDelay == 2       \* largest delay argument explored by SpecWait

Tags == {"app:1.0", "app:2.0"}
PrimeNames == {"alpine", "debian"}
Ports == {5000, 5001}

\* ------------------------------------------------------ program constants
DefaultRetries == 20        \* waitForSshTunnelInit(retries=20, ...)
DefaultDelay == 1           \* waitForSshTunnelInit(..., delay=1.0), seconds
LocalRegistryPort == 5000   \* the literal 5000 of the local commands

VARIABLES
    dockerImageTagList,  \* argument of pushImage: sequence of tags
    primeImages,         \* argument of pushImage: None or a list
    registryPort,        \* argument of pushImage
    pc,                  \* position in pushImage / main
    i,                   \* index of the running for loop (1-based)
    retval,              \* return value pending while the finally block runs
    result,              \* value pushImage returned to main
    exitCode,            \* process exit code (-1 while running)
    log,                 \* commands issued so far, in order, with their result
    out,                 \* lines printed so far
    tunnel,              \* the background ssh -N -L process
    container,           \* containers of the reserved name on the remote host
    setup,               \* what happened inside the registry setup command
    ready,               \* pushImage saw waitForSshTunnelInit return True
    wpc,                 \* position in waitForSshTunnelInit
    wi,                  \* iterations of its for loop already started
    retries,             \* its retries argument
    delay,               \* its delay argument
    wresult,             \* its return value
    attempts,            \* probes made during the current call
    slept,               \* time slept during the current call
    lastProbe            \* outcome of the latest probe

inputs == <<dockerImageTagList, primeImages, registryPort>>
frame == <<pc, i, retval, result, exitCode>>
world == <<log, out, tunnel, container, setup, ready>>
waitframe == <<wpc, wi, retries, delay, wresult, attempts, slept, lastProbe>>
vars == <<inputs, frame, world, waitframe>>

\* ---------------------------------------------------------------- helpers
SeqsUpTo(S, n) == UNION {[1..k -> S] : k \in 0..n}

Range(s) == {s[k] : k \in 1..Len(s)}

\* A command handed to the process executor.  kind names the command line,
\* at is where it runs, name the image it is about, port the port inside
\* the image reference (or the bind / listening port), rport the remote
\* endpoint of the forward, ok the executor's verdict (not failed()).
Cmd(kind, at, name, port, rport, ok) ==
    [kind |-> kind, at |-> at, name |-> name, port |-> port, rport |-> rport, ok |-> ok]

Msg(text, arg) == [text |-> text, arg |-> arg]

\* primeImages or []
OrEmpty(p) == IF p.given /\ p.items # <<>> THEN p.items ELSE <<>>

\* "localhost:5000/{0}".format(dockerImageTag): port of the local reference
LocalRefPort_Configurable(tag) == registryPort
LocalRefPort(tag) == LocalRegistryPort

\* urlopen("http://localhost:5000/v2/", timeout=5): port of the probe
ProbePort == LocalRegistryPort

\* Command(...).execute(): the verdicts a blocking command can come back
\* with, TRUE for success and FALSE for failed(); execute() returns a
\* result in both cases.
ExecuteResults == BOOLEAN

\* "localhost:{1}/{0}".format(x, registryPort): port of the remote reference
RemoteRefPort(name) == registryPort

Stages == {"Priming", "Tagging", "Pushing", "RemotePull"}

Items(stage) ==
    IF stage = "Priming" THEN OrEmpty(primeImages) ELSE dockerImageTagList

\* The command each pipeline stage issues for one item.
CommandOf(stage, item, ok) ==
    CASE stage = "Priming"    -> Cmd("prime", "remote", item, RemoteRefPort(item), 0, ok)
      [] stage = "Tagging"    -> Cmd("tag", "local", item, LocalRefPort(item), 0, ok)
      [] stage = "Pushing"    -> Cmd("push", "local", item, LocalRefPort(item), 0, ok)
      [] stage = "RemotePull" -> Cmd("pull", "remote", item, RemoteRefPort(item), 0, ok)

\* print(...) that opens a stage
Banner(stage) ==
    CASE stage = "Priming"    -> <<Msg("Priming Registry with base images...", "")>>
      [] stage = "Tagging"    -> <<Msg("Tagging image(s) for push...", "")>>
      [] stage = "Pushing"    -> <<Msg("Pushing Image(s) from local host...", "")>>
      [] stage = "RemotePull" -> <<Msg("Pulling and Retagging Image on remote host...", "")>>
      [] OTHER                -> <<>>

\* print(...) before the command of an item
BeforeOutput(stage, item) ==
    IF stage = "Priming" THEN <<Msg("Priming base image", item)>> ELSE <<>>

\* print(...) after the command of an item succeeded
SuccessOutput(stage, item) ==
    CASE stage = "Pushing"    -> <<Msg("Pushed Image Successfully...", item)>>
      [] stage = "RemotePull" -> <<Msg("Pulled Image Successfully...", item)>>
      [] OTHER                -> <<>>

Diagnostics(stage) ==
    <<Msg("ERROR", ""), Msg("stdout", stage), Msg("stderr", stage)>>

Remediation ==
    <<Msg("Error Pushing Image: Ensure localhost:5000 is added to your insecure registries.", ""),
      Msg("More Details (OS X)", ""), Msg("More Details (Linux)", "")>>

\* print(...) after a command failed
FailureOutput_AlwaysRemediation(stage) == Diagnostics(stage) \o Remediation
FailureOutput(stage) ==
    IF stage = "Pushing" THEN Diagnostics(stage) \o Remediation ELSE Diagnostics(stage)

\* Where a `return False' leads: out of the function before the try block,
\* into the finally block inside it.
AfterFailure_NoFinally(stage) == IF stage = "Tagging" THEN "Return" ELSE
    IF stage = "RegistrySetup" THEN "main" ELSE "CleanupRegistry"
AfterFailure_RegistryIgnored(stage) ==
    IF stage = "RegistrySetup" THEN "TunnelEstablish" ELSE "CleanupRegistry"
AfterFailure_TimeoutContinues(stage) ==
    CASE stage = "RegistrySetup" -> "main"
      [] stage = "TunnelReady"   -> "Priming"
      [] OTHER                   -> "CleanupRegistry"
AfterFailure(stage) ==
    IF stage = "RegistrySetup" THEN "main" ELSE "CleanupRegistry"

\* Where control goes when a for loop is exhausted.
AfterLoop_PullBeforePush(stage) ==
    CASE stage = "Priming"    -> "Tagging"
      [] stage = "Tagging"    -> "RemotePull"
      [] stage = "RemotePull" -> "Pushing"
      [] stage = "Pushing"    -> "CleanupRegistry"
AfterLoop(stage) ==
    CASE stage = "Priming"    -> "Tagging"
      [] stage = "Tagging"    -> "Pushing"
      [] stage = "Pushing"    -> "RemotePull"
      [] stage = "RemotePull" -> "CleanupRegistry"

\* The value pushImage returns once the finally block is through: the
\* pending `return False', else the `return True' after the block.
ReturnedValue_AlwaysTrue(pending) == "True"
ReturnedValue(pending) == IF pending = "none" THEN "True" ELSE pending

\* podman rm -f NAME on a host with n containers of that name: the exit
\* status and the number left.  With no such container the status depends
\* on the podman version; a removal that fails leaves the container.
ForceRemove(n) ==
    IF n = 0 THEN {<<TRUE, 0>>, <<FALSE, 0>>} ELSE {<<TRUE, 0>>, <<FALSE, n>>}

\* podman run -d --name NAME ... on a host with n containers of that name:
\* the exit status and the number there afterwards.  A name in use makes
\* the launch fail.
Launch(n) ==
    IF n = 0 THEN {<<TRUE, 1>>, <<FALSE, 0>>} ELSE {<<FALSE, n>>}

\* sh -c "first; second": the status of the list is the status of second
ShellSeq_AndAnd(first, second) == first /\ second
ShellSeq(first, second) == second

\* setup before the registry setup command ran
NoSetup ==
    [ran |-> FALSE, prior |-> 0, ssh |-> FALSE, rm |-> FALSE, removed |-> FALSE,
     launch |-> FALSE]

\* ------------------------------------------------------------------- Init
PrimeInputs ==
    {[given |-> FALSE, items |-> <<>>]}
        \cup {[given |-> TRUE, items |-> s] : s \in SeqsUpTo(PrimeNames, MaxPrimes) \ {<<>>}}

InitWorkflow ==
    /\ dockerImageTagList \in SeqsUpTo(Tags, MaxTags) \ {<<>>}
    /\ primeImages \in PrimeInputs
    /\ registryPort \in Ports
    /\ i = 1
    /\ retval = "none"
    /\ result = "none"
    /\ exitCode = -1
    /\ log = <<>>
    /\ tunnel = "none"
    /\ container \in {0, 1}
    /\ setup = NoSetup
    /\ ready = FALSE
    /\ wi = 0
    /\ wresult = "none"
    /\ attempts = 0
    /\ slept = 0
    /\ lastProbe = "none"

Init ==
    /\ InitWorkflow
    /\ pc = "RegistrySetup"
    /\ out = <<Msg("[REQUIRED] Ensure localhost:5000 is added to your insecure registries.", "")>>
    /\ wpc = "idle"
    /\ retries = DefaultRetries
    /\ delay = DefaultDelay

\* ---------------------------------------------------------------- actions
\* ssh host "podman rm -f NAME; podman run -d ... --name NAME -p 127.0.0.1:PORT:5000 registry"
\* The remote shell runs the forced removal, then the launch; ssh itself may
\* fail before the shell runs (sshOk).  setup records what happened.
RegistrySetup ==
    /\ pc = "RegistrySetup"
    /\ \E sshOk \in ExecuteResults, rm \in ForceRemove(container) :
        \E launch \in Launch(rm[2]) :
            LET ok == sshOk /\ ShellSeq(rm[1], launch[1]) IN
            /\ log' = Append(log, Cmd("registry", "remote", "docker-push-ssh-registry",
                                      registryPort, 0, ok))
            /\ container' = IF sshOk THEN launch[2] ELSE container
            /\ setup' = [ran |-> TRUE, prior |-> container, ssh |-> sshOk,
                         rm |-> sshOk /\ rm[1], removed |-> sshOk /\ rm[2] = 0,
                         launch |-> sshOk /\ launch[1]]
            /\ IF ok
               THEN /\ out' = out \o <<Msg("Setting up secure private registry... ", "")>>
                    /\ pc' = "TunnelEstablish"
                    /\ result' = result
               ELSE /\ out' = out \o <<Msg("Setting up secure private registry... ", "")>>
                                  \o FailureOutput("RegistrySetup")
                    /\ pc' = AfterFailure("RegistrySetup")
                    /\ result' = "False"
    /\ UNCHANGED <<inputs, i, retval, exitCode, tunnel, ready, waitframe>>

\* sshTunnelCommand.execute(waitForExit=False), then the call of
\* waitForSshTunnelInit() with its default arguments.
TunnelEstablish ==
    /\ pc = "TunnelEstablish"
    /\ log' = Append(log, Cmd("tunnel", "local", "", LocalRegistryPort, registryPort, TRUE))
    /\ tunnel' = "live"
    /\ out' = out \o <<Msg("Establishing SSH Tunnel...", ""),
                       Msg("Waiting for SSH Tunnel Initialization...", "")>>
    /\ pc' = "TunnelReady"
    /\ wpc' = "loop"
    /\ wi' = 0
    /\ retries' = DefaultRetries
    /\ delay' = DefaultDelay
    /\ wresult' = "none"
    /\ attempts' = 0
    /\ slept' = 0
    /\ lastProbe' = "none"
    /\ UNCHANGED <<inputs, i, retval, result, exitCode, container, setup, ready>>

\* for _ in range(retries): ...  /  return False
WaitLoop_OneShort ==
    /\ wpc = "loop"
    /\ IF wi + 1 < retries
       THEN /\ wi' = wi + 1
            /\ wpc' = "sleep"
            /\ wresult' = wresult
       ELSE /\ wi' = wi
            /\ wpc' = "returned"
            /\ wresult' = "False"
    /\ UNCHANGED <<inputs, frame, world, retries, delay, attempts, slept, lastProbe>>
WaitLoop_RetriesForever ==
    /\ wpc = "loop"
    /\ IF wi < retries
       THEN /\ wi' = wi + 1
            /\ attempts' = attempts
            /\ slept' = slept
       ELSE /\ wi' = 1
            /\ attempts' = 0
            /\ slept' = 0
    /\ wpc' = "sleep"
    /\ UNCHANGED <<inputs, frame, world, retries, delay, wresult, lastProbe>>
WaitLoop ==
    /\ wpc = "loop"
    /\ IF wi < retries
       THEN /\ wi' = wi + 1
            /\ wpc' = "sleep"
            /\ wresult' = wresult
       ELSE /\ wi' = wi
            /\ wpc' = "returned"
            /\ wresult' = "False"
    /\ UNCHANGED <<inputs, frame, world, retries, delay, attempts, slept, lastProbe>>

\* time.sleep(delay)
WaitSleep ==
    /\ wpc = "sleep"
    /\ slept' = slept + delay
    /\ wpc' = "probe"
    /\ UNCHANGED <<inputs, frame, world, wi, retries, delay, wresult, attempts, lastProbe>>

\* What GET http://localhost:5000/v2/ can answer: "ok200" a response with
\* status 200, "non200" a response with another status, "error" one of the
\* caught exceptions (connection error, timeout, HTTP error status).  The
\* probe goes through the forward, so only a live tunnel can answer.
ProbeOutcomes ==
    IF tunnel = "live" THEN {"ok200", "non200", "error"} ELSE {"error"}

\* urlopen(...), except ...: continue, if response.getcode() == 200: return True
WaitProbe ==
    /\ wpc = "probe"
    /\ \E outcome \in ProbeOutcomes :
        /\ lastProbe' = outcome
        /\ attempts' = attempts + 1
        /\ IF outcome = "ok200"
           THEN /\ wpc' = "returned"
                /\ wresult' = "True"
           ELSE /\ wpc' = "loop"
                /\ wresult' = wresult
    /\ UNCHANGED <<inputs, frame, world, wi, retries, delay, slept>>

\* if not waitForSshTunnelInit(): ... return False
TunnelReady_IgnoresTimeout ==
    /\ pc = "TunnelReady"
    /\ wpc = "returned"
    /\ ready' = (wresult = "True")
    /\ out' = out \o Banner("Priming")
    /\ pc' = "Priming"
    /\ i' = 1
    /\ wpc' = "idle"
    /\ wi' = 0
    /\ wresult' = "none"
    /\ attempts' = 0
    /\ slept' = 0
    /\ lastProbe' = "none"
    /\ UNCHANGED <<inputs, retval, result, exitCode, log, tunnel, container, setup, retries, delay>>
TunnelReady ==
    /\ pc = "TunnelReady"
    /\ wpc = "returned"
    /\ IF wresult = "True"
       THEN /\ ready' = TRUE
            /\ out' = out \o Banner("Priming")
            /\ pc' = "Priming"
            /\ retval' = retval
       ELSE /\ ready' = ready
            /\ out' = out \o <<Msg("ERROR", ""), Msg("SSH Tunnel failed to initialize.", "")>>
            /\ pc' = AfterFailure("TunnelReady")
            /\ retval' = "False"
    /\ i' = 1
    /\ wpc' = "idle"
    /\ wi' = 0
    /\ wresult' = "none"
    /\ attempts' = 0
    /\ slept' = 0
    /\ lastProbe' = "none"
    /\ UNCHANGED <<inputs, result, exitCode, log, tunnel, container, setup, retries, delay>>

\* One step of a pipeline for loop: the command of item i, or the loop's exit.
PipelineStep(stage, abortOnFailure) ==
    /\ pc = stage
    /\ IF i <= Len(Items(stage))
       THEN \E ok \in ExecuteResults :
              LET item == Items(stage)[i] IN
              /\ log' = Append(log, CommandOf(stage, item, ok))
              /\ IF ok \/ ~abortOnFailure
                 THEN /\ out' = out \o BeforeOutput(stage, item) \o SuccessOutput(stage, item)
                      /\ i' = i + 1
                      /\ pc' = pc
                      /\ retval' = retval
                 ELSE /\ out' = out \o BeforeOutput(stage, item) \o FailureOutput(stage)
                      /\ i' = 1
                      /\ pc' = AfterFailure(stage)
                      /\ retval' = "False"
       ELSE /\ log' = log
            /\ out' = out \o Banner(AfterLoop(stage))
            /\ i' = 1
            /\ pc' = AfterLoop(stage)
            /\ retval' = retval
    /\ UNCHANGED <<inputs, result, exitCode, tunnel, container, setup, ready, waitframe>>

Priming_Skipped ==
    /\ pc = "Priming"
    /\ out' = out \o Banner("Tagging")
    /\ pc' = "Tagging"
    /\ UNCHANGED <<inputs, i, retval, result, exitCode, log, tunnel, container, setup, ready, waitframe>>
Priming == PipelineStep("Priming", TRUE)

Tagging == PipelineStep("Tagging", TRUE)

Pushing_ContinueOnFailure == PipelineStep("Pushing", FALSE)
Pushing == PipelineStep("Pushing", TRUE)

RemotePull == PipelineStep("RemotePull", TRUE)

\* finally: ssh host "podman rm -f docker-push-ssh-registry"; the result of
\* execute() is dropped.
CleanupRegistry_Propagates ==
    /\ pc = "CleanupRegistry"
    /\ \E ok \in ExecuteResults :
        /\ log' = Append(log, Cmd("rmRegistry", "remote", "docker-push-ssh-registry", 0, 0, ok))
        /\ container' = IF ok THEN 0 ELSE container
        /\ retval' = IF ok THEN retval ELSE "False"
        /\ pc' = IF ok THEN "CleanupTunnel" ELSE "Return"
    /\ out' = out \o <<Msg("Cleaning up...", "")>>
    /\ UNCHANGED <<inputs, i, result, exitCode, tunnel, setup, ready, waitframe>>
CleanupRegistry ==
    /\ pc = "CleanupRegistry"
    /\ \E ok \in ExecuteResults :
        /\ log' = Append(log, Cmd("rmRegistry", "remote", "docker-push-ssh-registry", 0, 0, ok))
        /\ container' = IF ok THEN 0 ELSE container
    /\ out' = out \o <<Msg("Cleaning up...", "")>>
    /\ pc' = "CleanupTunnel"
    /\ UNCHANGED <<inputs, i, retval, result, exitCode, tunnel, setup, ready, waitframe>>

\* Command.terminate() on a handle in state t: the process is stopped
\* afterwards, and a handle that had already stopped is not an error.
TerminateHandle(t) == "terminated"

\* sshTunnelCommand.terminate()
CleanupTunnel_NoTerminate ==
    /\ pc = "CleanupTunnel"
    /\ pc' = "CleanupImages"
    /\ i' = 1
    /\ UNCHANGED <<inputs, retval, result, exitCode, world, waitframe>>
CleanupTunnel_FailsOnStopped ==
    /\ pc = "CleanupTunnel"
    /\ log' = Append(log, Cmd("terminate", "local", "", 0, 0, TRUE))
    /\ tunnel' = TerminateHandle(tunnel)
    /\ pc' = IF tunnel = "exited" THEN "Return" ELSE "CleanupImages"
    /\ retval' = IF tunnel = "exited" THEN "False" ELSE retval
    /\ i' = 1
    /\ UNCHANGED <<inputs, result, exitCode, out, container, setup, ready, waitframe>>
CleanupTunnel ==
    /\ pc = "CleanupTunnel"
    /\ log' = Append(log, Cmd("terminate", "local", "", 0, 0, TRUE))
    /\ tunnel' = TerminateHandle(tunnel)
    /\ pc' = "CleanupImages"
    /\ i' = 1
    /\ UNCHANGED <<inputs, retval, result, exitCode, out, container, setup, ready, waitframe>>

\* for dockerImageTag in dockerImageTagList: podman image rm localhost:5000/TAG
RemoveImages(list) ==
    /\ pc = "CleanupImages"
    /\ IF i <= Len(list)
       THEN /\ \E ok \in ExecuteResults :
                 log' = Append(log, Cmd("rmImage", "local", list[i], LocalRefPort(list[i]), 0, ok))
            /\ i' = i + 1
            /\ pc' = pc
       ELSE /\ log' = log
            /\ i' = 1
            /\ pc' = "Return"
    /\ UNCHANGED <<inputs, retval, result, exitCode, out, tunnel, container, setup, ready, waitframe>>

CleanupImages_FirstOnly == RemoveImages(SubSeq(dockerImageTagList, 1, 1))
CleanupImages_Reversed ==
    RemoveImages([k \in 1..Len(dockerImageTagList) |->
                     dockerImageTagList[Len(dockerImageTagList) + 1 - k]])
CleanupImages_OnlyCreated ==
    RemoveImages(SelectSeq(dockerImageTagList,
        LAMBDA t : \E k \in 1..Len(log) : log[k].kind = "tag" /\ log[k].name = t /\ log[k].ok))
CleanupImages == RemoveImages(dockerImageTagList)

\* the pending return statement completes, or `return True' after the block
Return ==
    /\ pc = "Return"
    /\ result' = ReturnedValue(retval)
    /\ pc' = "main"
    /\ UNCHANGED <<inputs, i, retval, exitCode, world, waitframe>>

\* if not success: sys.exit(1)
MainExit ==
    /\ pc = "main"
    /\ IF result = "True"
       THEN /\ exitCode' = 0
            /\ pc' = "Done"
       ELSE /\ exitCode' = 1
            /\ pc' = "Failed"
    /\ UNCHANGED <<inputs, i, retval, result, world, waitframe>>

\* The background tunnel process exits on its own.
TunnelExits ==
    /\ tunnel = "live"
    /\ tunnel' = "exited"
    /\ UNCHANGED <<inputs, frame, log, out, container, setup, ready, waitframe>>

Next ==
    \/ RegistrySetup
    \/ TunnelEstablish
    \/ WaitLoop
    \/ WaitSleep
    \/ WaitProbe
    \/ TunnelReady
    \/ Priming
    \/ Tagging
    \/ Pushing
    \/ RemotePull
    \/ CleanupRegistry
    \/ CleanupTunnel
    \/ CleanupImages
    \/ Return
    \/ MainExit
    \/ TunnelExits

Spec == Init /\ [][Next]_vars

\* The steps of the single thread of control: every one of them is a
\* blocking call that returns, so the thread keeps taking steps while it
\* has one to take.  The tunnel process is under no such obligation.
Step ==
    \/ RegistrySetup
    \/ TunnelEstablish
    \/ WaitLoop
    \/ WaitSleep
    \/ WaitProbe
    \/ TunnelReady
    \/ Priming
    \/ Tagging
    \/ Pushing
    \/ RemotePull
    \/ CleanupRegistry
    \/ CleanupTunnel
    \/ CleanupImages
    \/ Return
    \/ MainExit

FairSpec == Init /\ [][Next]_vars /\ WF_vars(Step)

\* waitForSshTunnelInit called on its own with arbitrary arguments, next to
\* a tunnel that is up and may exit.
InitWait ==
    /\ dockerImageTagList = <<"app:1.0">>
    /\ primeImages = [given |-> FALSE, items |-> <<>>]
    /\ registryPort = LocalRegistryPort
    /\ pc = "caller"
    /\ i = 1
    /\ retval = "none"
    /\ result = "none"
    /\ exitCode = -1
    /\ log = <<>>
    /\ out = <<>>
    /\ tunnel = "live"
    /\ container = 1
    /\ setup = NoSetup
    /\ ready = FALSE
    /\ wpc = "loop"
    /\ wi = 0
    /\ retries \in 0..MaxRetries
    /\ delay \in 0..MaxDelay
    /\ wresult = "none"
    /\ attempts = 0
    /\ slept = 0
    /\ lastProbe = "none"

NextWait ==
    \/ WaitLoop
    \/ WaitSleep
    \/ WaitProbe
    \/ TunnelExits

SpecWait == InitWait /\ [][NextWait]_vars

\* ------------------------------------------------------- reading the log
Sel(kinds) == SelectSeq(log, LAMBDA c : c.kind \in kinds)

Count(kind) == Len(Sel({kind}))

Names(s) == [k \in 1..Len(s) |-> s[k].name]

AllOk(s) == \A k \in 1..Len(s) : s[k].ok

Printed(m) == \E k \in 1..Len(out) : out[k] = m

Terminal == pc \in {"Done", "Failed"}

MainKinds == {"prime", "tag", "push", "pull"}

MainLog == Sel(MainKinds)

RegistryOk == Count("registry") = 1 /\ AllOk(Sel({"registry"}))

\* every stage of the main sequence ran to its end without a failure
MainSequenceSucceeded ==
    /\ RegistryOk
    /\ ready
    /\ AllOk(MainLog)
    /\ Names(Sel({"prime"})) = OrEmpty(primeImages)
    /\ Names(Sel({"tag"})) = dockerImageTagList
    /\ Names(Sel({"push"})) = dockerImageTagList
    /\ Names(Sel({"pull"})) = dockerImageTagList

CleanupRanOnce ==
    /\ Count("rmRegistry") = 1
    /\ Count("terminate") = 1
    /\ Count("rmImage") = Len(dockerImageTagList)

CleanupNeverRan ==
    /\ Count("rmRegistry") = 0
    /\ Count("terminate") = 0
    /\ Count("rmImage") = 0

Occurrences(x, s) == Cardinality({k \in 1..Len(s) : s[k] = x})

C2_DoneIffAllStagesSucceeded ==
    Terminal =>
        /\ pc = "Done" <=> MainSequenceSucceeded
        /\ pc = "Done" => result = "True" /\ exitCode = 0
        /\ pc = "Failed" => result = "False" /\ exitCode = 1

C2_Witness ==
    /\ pc = "Done"
    /\ Len(dockerImageTagList) = 2
    /\ Len(OrEmpty(primeImages)) = 1

\* ------------------------------------------------------------------ C3
\* C3: when a cleanup command failed, the remaining cleanup steps have
\* still all run by the end of the workflow, and the value pushImage
\* returned is the one the main sequence alone decides: True after a fully
\* successful main sequence, False after a main-sequence failure.
C3_CleanupOutcomeIgnored ==
    (Terminal /\ ~AllOk(Sel({"rmRegistry", "rmImage"}))) =>
        /\ CleanupRanOnce
        /\ result = IF MainSequenceSucceeded THEN "True" ELSE "False"
        /\ exitCode = IF MainSequenceSucceeded THEN 0 ELSE 1

C3_Witness ==
    /\ pc = "Done"
    /\ ~AllOk(Sel({"rmRegistry"}))
    /\ ~AllOk(Sel({"rmImage"}))
    /\ Len(dockerImageTagList) = 2

\* ------------------------------------------------------------------ C4
ContainerCreated == RegistryOk

TunnelStarted == Count("tunnel") >= 1

\* the local retags localhost:5000/<tag> a successful tag command created
RetagsCreated == {c.name : c \in Range(SelectSeq(log, LAMBDA c : c.kind = "tag" /\ c.ok))}

RemovalsOf(tag) == Len(SelectSeq(log, LAMBDA c : c.kind = "rmImage" /\ c.name = tag))

\* C4 as stated: when the workflow has ended, the registry container was
\* released once if created, the tunnel terminated once if started, and
\* every local retag that was created had its removal issued exactly once,
\* duplicated tags included.
C4_EveryResourceReleasedOnce ==
    Terminal =>
        /\ ContainerCreated => Count("rmRegistry") = 1
        /\ TunnelStarted => Count("terminate") = 1
        /\ \A t \in RetagsCreated : RemovalsOf(t) = 1

\* C4 amended: when the workflow has ended, the registry container removal
\* was issued once if the container was created, terminate was invoked once
\* if the tunnel was started, and the removal of each local retag that was
\* created was issued once per occurrence of its tag in the tag list:
\* exactly once for a tag listed once, m times for a tag listed m times.
C4_ReleasedOncePerListEntry ==
    Terminal =>
        /\ ContainerCreated => Count("rmRegistry") = 1
        /\ TunnelStarted => Count("terminate") = 1
        /\ \A t \in RetagsCreated : RemovalsOf(t) = Occurrences(t, dockerImageTagList)

C4_Witness ==
    /\ Terminal
    /\ dockerImageTagList = <<"app:1.0", "app:1.0">>
    /\ RetagsCreated = {"app:1.0"}
    /\ Count("tag") = 2
    /\ RemovalsOf("app:1.0") = 2
    /\ Count("rmRegistry") = 1
    /\ Count("terminate") = 1

\* ------------------------------------------------------------------ C5
StageKind(stage) ==
    CASE stage = "Priming"    -> "prime"
      [] stage = "Tagging"    -> "tag"
      [] stage = "Pushing"    -> "push"
      [] stage = "RemotePull" -> "pull"

IsPrefix(s, t) == Len(s) <= Len(t) /\ \A k \in 1..Len(s) : s[k] = t[k]

\* C5: in every pipeline stage the commands issued are those of a prefix
\* of the stage's item list, in order; a failed command is the last
\* command of the whole main sequence (nothing follows it in its stage or
\* in any later stage); and after a failed push no remote pull exists.
C5_AbortOnFirstFailure ==
    /\ \A stage \in Stages :
         IsPrefix(Names(Sel({StageKind(stage)})), Items(stage))
    /\ \A k \in 1..Len(MainLog) : ~MainLog[k].ok => k = Len(MainLog)
    /\ ~AllOk(Sel({"push"})) => Count("pull") = 0

C5_Witness ==
    /\ pc = "Failed"
    /\ Len(dockerImageTagList) = 2
    /\ Count("push") = 1
    /\ ~AllOk(Sel({"push"}))
    /\ Count("pull") = 0

\* ------------------------------------------------------------------ C6
KindNames(s) == [k \in 1..Len(s) |-> <<s[k].kind, s[k].name>>]

Tagged(kind, list) == [k \in 1..Len(list) |-> <<kind, list[k]>>]

\* C6: a fully successful run has issued, for N tags, exactly N tag
\* commands, then N push commands, then N remote pull commands, each group
\* in the order of the tag list.
C6_TagPushPullInOrder ==
    pc = "Done" =>
        KindNames(Sel({"tag", "push", "pull"})) =
            Tagged("tag", dockerImageTagList)
                \o Tagged("push", dockerImageTagList)
                \o Tagged("pull", dockerImageTagList)

C6_Witness ==
    /\ pc = "Done"
    /\ dockerImageTagList = <<"app:2.0", "app:1.0">>

\* ------------------------------------------------------------------ C7
PrimesFirst ==
    \A k \in 1..Len(MainLog) :
        MainLog[k].kind = "prime" => \A j \in 1..k : MainLog[j].kind = "prime"

\* C7 as stated: a fully successful run has issued exactly one priming
\* command per distinct prime image, all before the first tag, push or
\* remote pull command.
C7_OnePrimePerDistinctImage ==
    pc = "Done" =>
        /\ Count("prime") = Cardinality(Range(OrEmpty(primeImages)))
        /\ PrimesFirst

\* C7 amended: a fully successful run has issued exactly one priming
\* command per entry of the prime-image list, in list order (none when no
\* prime images are given, two for an image listed twice), all before the
\* first tag, push or remote pull command.
C7_OnePrimePerListEntry ==
    pc = "Done" =>
        /\ Names(Sel({"prime"})) = OrEmpty(primeImages)
        /\ PrimesFirst

C7_Witness ==
    /\ pc = "Done"
    /\ OrEmpty(primeImages) = <<"alpine", "alpine">>
    /\ Count("prime") = 2

\* ------------------------------------------------------------------ C8
LocalPortsFixed ==
    /\ ProbePort = 5000
    /\ \A k \in 1..Len(log) :
        /\ log[k].kind \in {"tag", "push"} => log[k].port = 5000
        /\ log[k].kind = "tunnel" => log[k].port = 5000 /\ log[k].rport = registryPort
        /\ log[k].kind = "registry" => log[k].port = registryPort

\* C8 as stated: the local tag and push commands, the tunnel's listening
\* port and the probe always use 5000, and no command other than the
\* registry bind and the tunnel's remote endpoint carries the registry port.
C8_RegistryPortOnlyBindAndTunnel ==
    /\ LocalPortsFixed
    /\ \A k \in 1..Len(log) :
        log[k].kind \notin {"registry", "tunnel"} => log[k].port \in {0, 5000}

\* C8 amended: the local tag and push commands, the tunnel's listening
\* port and the probe always use 5000; the registry port governs the
\* remote registry bind, the tunnel's remote endpoint, and the registry
\* address localhost:<registryPort> inside the remote priming and remote
\* pull commands.
C8_RegistryPortOnRemoteSideOnly ==
    /\ LocalPortsFixed
    /\ \A k \in 1..Len(log) :
        /\ log[k].kind \in {"prime", "pull"} => log[k].port = registryPort
        /\ log[k].kind \notin {"registry", "tunnel", "prime", "pull"}
               => log[k].port \in {0, 5000}

C8_Witness ==
    /\ registryPort = 5001
    /\ Count("tag") >= 1
    /\ Count("push") >= 1
    /\ Count("pull") >= 1

\* ------------------------------------------------------------------ C9
Position(m) == CHOOSE k \in 1..Len(out) : out[k] = m

MainFailure == retval = "False" \/ result = "False"

\* the stage whose failure ended the main sequence
FailingStage ==
    CASE ~RegistryOk                 -> "RegistrySetup"
      [] ~AllOk(Sel({"prime"}))      -> "Priming"
      [] ~AllOk(Sel({"tag"}))        -> "Tagging"
      [] ~AllOk(Sel({"push"}))       -> "Pushing"
      [] ~AllOk(Sel({"pull"}))       -> "RemotePull"
      [] OTHER                       -> "TunnelReady"

DiagnosticOf(stage) ==
    IF stage = "TunnelReady" THEN Msg("SSH Tunnel failed to initialize.", "")
    ELSE Msg("stderr", stage)

\* C9: once the main sequence has failed, the failing stage's diagnostic
\* is on standard output, ahead of the line that opens cleanup; the
\* remediation message is on standard output exactly when a push command
\* failed; and a run whose push command failed ends in Failed with exit
\* code 1 after the cleanup ran.
C9_DiagnosticsBeforeCleanup ==
    /\ MainFailure =>
        /\ Printed(Msg("ERROR", ""))
        /\ Printed(DiagnosticOf(FailingStage))
        /\ Printed(Msg("Cleaning up...", "")) =>
              Position(DiagnosticOf(FailingStage)) < Position(Msg("Cleaning up...", ""))
    /\ Printed(Remediation[1]) <=> ~AllOk(Sel({"push"}))
    /\ (Terminal /\ ~AllOk(Sel({"push"}))) =>
          pc = "Failed" /\ exitCode = 1 /\ CleanupRanOnce

C9_Witness ==
    /\ pc = "Failed"
    /\ Printed(Remediation[1])
    /\ Printed(Msg("Cleaning up...", ""))

\* ------------------------------------------------------------------ C10
\* C10: waitForSshTunnelInit returns False only after at least `retries'
\* probes and (retries - 1) * delay of sleep; a probe answered with 200
\* makes it return True at once, with no further probe or sleep; every
\* other probe outcome sends it back to the loop head, one retry used.
C10_WaitReady ==
    /\ (wpc = "returned" /\ wresult = "False") =>
          /\ attempts >= retries
          /\ slept >= (retries - 1) * delay
    /\ lastProbe = "ok200" => wpc = "returned" /\ wresult = "True"
    /\ (wpc = "returned" /\ wresult = "True") =>
          /\ lastProbe = "ok200"
          /\ attempts = wi
          /\ slept = attempts * delay
    /\ lastProbe \in {"non200", "error"} =>
          /\ wpc \in {"loop", "returned"} => attempts = wi
          /\ wpc \in {"sleep", "probe"} => attempts = wi - 1
    /\ attempts <= retries

C10_Witness ==
    /\ wpc = "returned"
    /\ wresult = "False"
    /\ retries = 3
    /\ delay = 2
    /\ lastProbe = "non200"
    /\ attempts = 3

\* ------------------------------------------------------------------ C11
CleanupKinds == {"rmRegistry", "terminate", "rmImage"}

CleanupLog == Sel(CleanupKinds)

ExpectedCleanup ==
    <<<<"rmRegistry", "docker-push-ssh-registry">>, <<"terminate", "">>>>
        \o Tagged("rmImage", dockerImageTagList)

\* C11: the cleanup commands issued so far are always a prefix of: the
\* remote registry removal, the tunnel terminate, one local image removal
\* per tag in input order; and a workflow that ran cleanup has issued all
\* of them when it ends.
C11_CleanupOrder ==
    /\ IsPrefix(KindNames(CleanupLog), ExpectedCleanup)
    /\ (Terminal /\ RegistryOk) => KindNames(CleanupLog) = ExpectedCleanup

C11_Witness ==
    /\ Terminal
    /\ dockerImageTagList = <<"app:2.0", "app:1.0">>
    /\ Len(CleanupLog) = 4

\* ------------------------------------------------------------------ C12
\* C12: the tunnel is started at most once and terminated at most once,
\* terminate is only invoked on a started tunnel, a live tunnel has not
\* been terminated, and a workflow that started the tunnel has invoked
\* terminate exactly once and left no live tunnel when it ends.
C12_OneTunnelTerminatedOnce ==
    /\ Count("tunnel") <= 1
    /\ Count("terminate") <= 1
    /\ tunnel = "none" <=> Count("tunnel") = 0
    /\ tunnel = "live" => Count("terminate") = 0
    /\ Count("terminate") = 1 => TunnelStarted
    /\ (Terminal /\ TunnelStarted) => Count("terminate") = 1 /\ tunnel = "terminated"

C12_Witness ==
    /\ pc = "Done"
    /\ tunnel = "terminated"
    /\ Count("tunnel") = 1
    /\ Count("terminate") = 1

\* ------------------------------------------------------------------ C13
SetupResult == Sel({"registry"})[1].ok

\* C13: whatever the prior state of the remote host, the setup command
\* succeeds exactly when the remote shell ran and the launch succeeded;
\* the launch succeeds only once no container of the reserved name is
\* left; a successful setup leaves exactly one such container; and a
\* removal that found nothing to remove does not make the setup fail.
C13_SetupIdempotent ==
    setup.ran =>
        /\ SetupResult <=> (setup.ssh /\ setup.launch)
        /\ setup.launch => setup.removed
        /\ pc = "TunnelEstablish" => container = 1
        /\ (setup.prior = 0 /\ setup.ssh /\ setup.launch) => SetupResult

C13_Witness ==
    /\ pc = "TunnelEstablish"
    /\ setup.prior = 0
    /\ ~setup.rm
    /\ container = 1

\* ------------------------------------------------------------------ C14
Aborted ==
    /\ Len(log) = 1
    /\ tunnel = "none"
    /\ wpc = "idle"
    /\ attempts = 0
    /\ pc \in {"main", "Failed"}

TimedOut == Printed(Msg("SSH Tunnel failed to initialize.", ""))

\* C15: after a readiness timeout no priming, tag, push or remote pull
\* command is ever issued, control is in the cleanup or behind it, and the
\* workflow ends in Failed with exit code 1 after the cleanup ran.
C15_TimeoutShortCircuits ==
    TimedOut =>
        /\ MainLog = <<>>
        /\ ~ready
        /\ pc \in {"CleanupRegistry", "CleanupTunnel", "CleanupImages", "Return", "main", "Failed"}
        /\ Terminal => pc = "Failed" /\ exitCode = 1 /\ CleanupRanOnce

C15_Witness ==
    /\ pc = "Failed"
    /\ TimedOut
    /\ CleanupRanOnce
    /\ Len(log) = 4 + Len(dockerImageTagList)

\* ------------------------------------------------------------------ C16
C16_State ==
    /\ ~Terminal => ENABLED Step
    /\ (pc = "TunnelReady" /\ wpc = "returned" /\ wresult = "False") => attempts = retries
    /\ (tunnel = "exited" /\ pc = "TunnelReady" /\ lastProbe # "ok200") => wresult # "True"
    /\ (Terminal /\ TunnelStarted) =>
          /\ Count("terminate") = 1
          /\ result = IF MainSequenceSucceeded THEN "True" ELSE "False"

C16_Steps ==
    /\ (tunnel = "live" /\ tunnel' = "exited") =>
          UNCHANGED <<inputs, frame, log, out, container, setup, ready, waitframe>>
    /\ (pc = "TunnelReady" /\ pc' # "TunnelReady") =>
          /\ wpc = "returned"
          /\ pc' = IF wresult = "True" THEN "Priming" ELSE "CleanupRegistry"
          /\ wresult = "False" => attempts = retries
    /\ (pc = "CleanupTunnel" /\ tunnel = "exited" /\ pc' # pc) =>
          /\ pc' = "CleanupImages"
          /\ retval' = retval
          /\ tunnel' = "terminated"
          /\ Len(log') = Len(log) + 1

\* C16: the tunnel exiting changes nothing but the tunnel; whatever the
\* tunnel's state the thread of control always has its next step, leaves
\* the readiness wait only on the wait's verdict (False only after all
\* retries were used, never True for a tunnel that died before a 200), and
\* terminate on an already-stopped handle is invoked once and continues
\* the cleanup with the pending result untouched.
C16_TunnelStateNeverObserved == []C16_State /\ [][C16_Steps]_vars

C16_Witness ==
    /\ pc = "CleanupTunnel"
    /\ tunnel = "exited"
    /\ ~ready
    /\ TimedOut

\* ------------------------------------------------------------------ C17
\* C17: every run in which the thread of control keeps taking its steps
\* reaches Done or Failed.
C17_Terminates == <>Terminal

C17_Witness ==
    /\ pc = "Done"
    /\ Len(dockerImageTagList) = 2
    /\ Len(OrEmpty(primeImages)) = 2

\* ------------------------------------------------------------------ C18
\* C18: every priming, tag, push and remote pull command in the log comes
\* after a successful registry setup command and after the tunnel start,
\* was issued with the readiness verdict seen, and precedes every cleanup
\* command.
C18_MainCommandsInsideWindow ==
    \A k \in 1..Len(log) :
        log[k].kind \in MainKinds =>
            /\ k >= 3
            /\ log[1].kind = "registry" /\ log[1].ok
            /\ log[2].kind = "tunnel"
            /\ ready
            /\ \A j \in 1..Len(log) : log[j].kind \in CleanupKinds => j > k

C18_Witness ==
    /\ pc = "Failed"
    /\ Count("pull") = 2
    /\ ~AllOk(Sel({"pull"}))
    /\ Count("rmImage") = 2

\* ------------------------------------------------------------------ C19
\* C19: the local image removals issued so far are those of a prefix of
\* the tag list, in order, and a workflow that ran cleanup has issued one
\* per entry when it ends, however far the main sequence got.
C19_OneRemovalPerEntry ==
    /\ IsPrefix(Names(Sel({"rmImage"})), dockerImageTagList)
    /\ (Terminal /\ RegistryOk) => Names(Sel({"rmImage"})) = dockerImageTagList

C19_Witness ==
    /\ Terminal
    /\ TimedOut
    /\ Count("tag") = 0
    /\ Len(dockerImageTagList) = 2
    /\ Count("rmImage") = 2

====
